---- MODULE Spec2Model ----
(***************************************************************************)
(* LodgeMate (core app): the persistent store and the request handlers     *)
(* that read and write it.                                                 *)
(*                                                                         *)
(* The store is the only shared state.  A handler that does one database   *)
(* statement is one action; the transaction-creation and sign_up handlers  *)
(* do a read followed by separate writes (autocommit), so they are split   *)
(* at their database statements and a worker's position is kept in pc.     *)
(* The sequential specifications let worker 1 alone issue requests; the    *)
(* concurrent ones let every worker do so.                                 *)
(*                                                                         *)
(* Outside the model: how the serializer classes resolve the names in      *)
(* Meta.fields, URL dispatch, sessions, and the storage engine.            *)
(***************************************************************************)
EXTENDS Integers, Sequences, FiniteSets, TLC

VARIABLES items, txns, treq,            \* point of sale
          reservations, today, rlast,   \* reservations
          payments, plast,              \* payments
          users, ureq,                  \* users
          settings, access,             \* permission checks
          notifications, listed,        \* user-scoped listings
          revenue                       \* reports

posVars == <<items, txns, treq>>
resVars == <<reservations, today, rlast>>
payVars == <<payments, plast>>
userVars == <<users, ureq>>
accVars == <<settings, access>>
listVars == <<notifications, listed>>
repVars == <<revenue>>
vars == <<posVars, resVars, payVars, userVars, accVars, listVars, repVars>>

notPOS == <<resVars, payVars, userVars, accVars, listVars, repVars>>
notRes == <<posVars, payVars, userVars, accVars, listVars, repVars>>
notPay == <<posVars, resVars, userVars, accVars, listVars, repVars>>
notUsers == <<posVars, resVars, payVars, accVars, listVars, repVars>>
notAccess == <<posVars, resVars, payVars, userVars, listVars, repVars>>
notListing == <<posVars, resVars, payVars, userVars, accVars, repVars>>
notReports == <<posVars, resVars, payVars, userVars, accVars, listVars>>

\* ---------------------------------------------------------------- bounds
MaxQty == 3
MaxTxns == 2
MaxRes == 1
MaxDay == 2
MaxPayments == 2
MaxMarks == 2
MaxUsers == 2
MaxNotes == 2

ItemIds == {1}
Prices == {-1, 5}
Workers == {1, 2}

\* ------------------------------------------------- point of sale: store
NoItem == [exists |-> FALSE, quantity |-> 0, price |-> 0]

IdleReq == [pc |-> "idle", item |-> 0, qs |-> 0, q0 |-> 0, q |-> 0,
            price |-> 0, total |-> 0, code |-> 0]

AllIdle == \A p \in Workers : treq[p].pc = "idle"

InFlight == Cardinality({p \in Workers : treq[p].pc # "idle"})

\* --------------------------------------------------- inventory endpoint
\* InventoryItem.quantity is a PositiveIntegerField: the field rejects a
\* negative value.  The serializer the view imports is the second
\* InventoryItemSerializer (fields = '__all__'), which declares no
\* validate_price, and InventoryItem.clean is never called.
InventoryItemSerializer_is_valid(quantity, price) == quantity >= 0

InventoryCreate(i, quantity, price) ==
    /\ ~items[i].exists
    /\ IF InventoryItemSerializer_is_valid(quantity, price)
       THEN items' = [items EXCEPT ![i] =
                [exists |-> TRUE, quantity |-> quantity, price |-> price]]
       ELSE items' = items
    /\ UNCHANGED <<txns, treq, notPOS>>

InventoryUpdate(i, quantity, price) ==
    /\ items[i].exists
    /\ IF InventoryItemSerializer_is_valid(quantity, price)
       THEN items' = [items EXCEPT ![i] =
                [exists |-> TRUE, quantity |-> quantity, price |-> price]]
       ELSE items' = items
    /\ UNCHANGED <<txns, treq, notPOS>>

\* ------------------------------------------------- transactions endpoint
\* The stock check off by one: a request for one more than the stock passes.
TransactionSerializer_validate_OffByOne(quantity, quantity_sold) ==
    ~(quantity + 1 < quantity_sold)

\* TransactionSerializer.validate: the stock check on the item just read.
TransactionSerializer_validate(quantity, quantity_sold) ==
    ~(quantity < quantity_sold)

\* POST /transactions/: is_valid() reads the item row and runs validate().
\* A rejected request ends here with 400.
TxnRequest(p, i, quantity_sold) ==
    /\ treq[p].pc = "idle"
    /\ Len(txns) + InFlight < MaxTxns
    /\ items[i].exists
    /\ LET it == items[i] IN
       IF TransactionSerializer_validate(it.quantity, quantity_sold)
       THEN treq' = [treq EXCEPT ![p] =
                [pc |-> "create", item |-> i, qs |-> quantity_sold,
                 q0 |-> it.quantity, q |-> it.quantity, price |-> it.price,
                 total |-> 0, code |-> 0]]
       ELSE treq' = [treq EXCEPT ![p] =
                [pc |-> "idle", item |-> i, qs |-> quantity_sold,
                 q0 |-> it.quantity, q |-> it.quantity, price |-> it.price,
                 total |-> 0, code |-> 400]]
    /\ UNCHANGED <<items, txns, notPOS>>

\* TransactionSerializer.create, first half: deduct on the loaded item,
\* item.save(), compute total_price.  (The user keyword the view's
\* perform_create adds is in validated_data but create() never reads it.)
TransactionSerializer_create(p) ==
    /\ treq[p].pc = "create"
    /\ LET r == treq[p]
           nq == r.q - r.qs
       IN /\ items' = [items EXCEPT ![r.item] =
                  [exists |-> TRUE, quantity |-> nq, price |-> r.price]]
          /\ treq' = [treq EXCEPT ![p].q = nq,
                                  ![p].total = r.qs * r.price,
                                  ![p].pc = "save"]
    /\ UNCHANGED <<txns, notPOS>>

\* Transaction.save's own stock check, on the same in-memory item.
Transaction_save_has_stock(quantity, quantity_sold) ==
    ~(quantity < quantity_sold)

\* Transaction.objects.create(...) -> Transaction.save(): the check, then
\* the second deduction and item.save().  ValueError ends the request (500).
Transaction_save(p) ==
    /\ treq[p].pc = "save"
    /\ LET r == treq[p]
           nq == r.q - r.qs
       IN IF Transaction_save_has_stock(r.q, r.qs)
          THEN /\ items' = [items EXCEPT ![r.item] =
                       [exists |-> TRUE, quantity |-> nq, price |-> r.price]]
               /\ treq' = [treq EXCEPT ![p].q = nq,
                                       ![p].total = r.qs * r.price,
                                       ![p].pc = "insert"]
          ELSE /\ items' = items
               /\ treq' = [treq EXCEPT ![p].pc = "idle", ![p].code = 500]
    /\ UNCHANGED <<txns, notPOS>>

\* super().save(): the INSERT of the transaction row; 201.
Transaction_insert(p) ==
    /\ treq[p].pc = "insert"
    /\ LET r == treq[p] IN
       txns' = Append(txns, [item |-> r.item, quantity_sold |-> r.qs,
                             total_price |-> r.total])
    /\ treq' = [treq EXCEPT ![p].pc = "idle", ![p].code = 201]
    /\ UNCHANGED <<items, notPOS>>

\* ------------------------------------------- point of sale: specifications
InventoryStep ==
    \E i \in ItemIds, quantity \in -1..MaxQty, price \in Prices :
        \/ InventoryCreate(i, quantity, price)
        \/ InventoryUpdate(i, quantity, price)

TxnStep(p) ==
    \/ \E i \in ItemIds, quantity_sold \in 0..MaxQty : TxnRequest(p, i, quantity_sold)
    \/ TransactionSerializer_create(p)
    \/ Transaction_save(p)
    \/ Transaction_insert(p)

\* One request at a time.
NextPOS ==
    \/ \E i \in ItemIds, quantity \in -1..MaxQty, price \in Prices :
          AllIdle /\ InventoryCreate(i, quantity, price)
    \/ \E i \in ItemIds, quantity \in -1..MaxQty, price \in Prices :
          AllIdle /\ InventoryUpdate(i, quantity, price)
    \/ TxnStep(1)


\* Requests of all workers interleave at their database statements.
NextPOSConc ==
    \/ InventoryStep
    \/ \E p \in Workers : TxnStep(p)



\* ---------------------------------------------------------- reservations
\* Reservation.STATUS_CHOICES, in order.
STATUS_CHOICES == <<"pending", "confirmed", "checked_in", "checked_out">>

Statuses == {STATUS_CHOICES[k] : k \in 1..Len(STATUS_CHOICES)}

\* A field the request leaves out.
Omitted == "omitted"
NoDate == -1
\* Reservation.guest of a row made through the endpoint: the serializer has no
\* guest field and the view supplies none.
NoGuest == 0

Dates == 0..MaxDay

\* The last request served and its answer; ci and co are the dates a
\* creation sent.
NoExchange == [op |-> "none", id |-> 0, ci |-> NoDate, co |-> NoDate, code |-> 0]

\* date.today() moves on.
Tick ==
    /\ today < MaxDay
    /\ today' = today + 1
    /\ UNCHANGED <<reservations, rlast, notRes>>

\* The past-date check made strict the other way: today is refused too.
ReservationSerializer_validate_RefusesToday(check_in_date, check_out_date, tdy) ==
    IF check_in_date = NoDate THEN "TypeError"
    ELSE IF check_in_date <= tdy THEN "past"
    ELSE IF check_out_date = NoDate THEN "TypeError"
    ELSE IF check_out_date <= check_in_date THEN "order"
    ELSE "ok"

\* The order check made lax: check-out on the check-in day passes.
ReservationSerializer_validate_AllowsSameDay(check_in_date, check_out_date, tdy) ==
    IF check_in_date = NoDate THEN "TypeError"
    ELSE IF check_in_date < tdy THEN "past"
    ELSE IF check_out_date = NoDate THEN "TypeError"
    ELSE IF check_out_date < check_in_date THEN "order"
    ELSE "ok"

\* ReservationSerializer.validate.  data.get() of a field a partial update
\* leaves out is None, and comparing None with a date raises TypeError.
ReservationSerializer_validate(check_in_date, check_out_date, tdy) ==
    IF check_in_date = NoDate THEN "TypeError"
    ELSE IF check_in_date < tdy THEN "past"
    ELSE IF check_out_date = NoDate THEN "TypeError"
    ELSE IF check_out_date <= check_in_date THEN "order"
    ELSE "ok"

\* ValidationError is answered 400, an uncaught TypeError 500.
FailureCode(outcome) == IF outcome = "TypeError" THEN 500 ELSE 400

\* POST /reservations/: both dates are required fields; status is writable
\* and defaults to 'pending'.
ReservationCreate(check_in_date, check_out_date, status) ==
    /\ Len(reservations) < MaxRes
    /\ LET outcome == ReservationSerializer_validate(check_in_date, check_out_date, today)
           row == [guest |-> NoGuest,
                   check_in_date |-> check_in_date,
                   check_out_date |-> check_out_date,
                   status |-> IF status = Omitted THEN "pending" ELSE status]
       IN IF outcome = "ok"
          THEN /\ reservations' = Append(reservations, row)
               /\ rlast' = [op |-> "create", id |-> Len(reservations) + 1,
                            ci |-> check_in_date, co |-> check_out_date, code |-> 201]
          ELSE /\ reservations' = reservations
               /\ rlast' = [op |-> "create", id |-> 0,
                            ci |-> check_in_date, co |-> check_out_date,
                            code |-> FailureCode(outcome)]
    /\ UNCHANGED <<today, notRes>>

\* PUT /reservations/{id}/ (both dates given) and PATCH (a date may be left
\* out): validate() runs on the request's data, then every given field is
\* set on the row and saved.
ReservationUpdate(id, check_in_date, check_out_date, status) ==
    /\ id \in 1..Len(reservations)
    /\ LET outcome == ReservationSerializer_validate(check_in_date, check_out_date, today)
           old == reservations[id]
           row == [guest |-> old.guest,
                   check_in_date |-> check_in_date,
                   check_out_date |-> check_out_date,
                   status |-> IF status = Omitted THEN old.status ELSE status]
       IN IF outcome = "ok"
          THEN /\ reservations' = [reservations EXCEPT ![id] = row]
               /\ rlast' = [op |-> "update", id |-> id,
                            ci |-> NoDate, co |-> NoDate, code |-> 200]
          ELSE /\ reservations' = reservations
               /\ rlast' = [op |-> "update", id |-> id,
                            ci |-> NoDate, co |-> NoDate,
                            code |-> FailureCode(outcome)]
    /\ UNCHANGED <<today, notRes>>

\* The check-in guard let through for a pending reservation as well.
check_in_refused_OnlyAfterCheckIn(status) == status \notin {"pending", "confirmed"}

\* ReservationViewSet.check_in: the guard that answers 400.
check_in_refused(status) == status # "confirmed"

\* POST /reservations/{id}/check_in/
check_in(id) ==
    /\ id \in 1..Len(reservations)
    /\ IF check_in_refused(reservations[id].status)
       THEN /\ reservations' = reservations
            /\ rlast' = [op |-> "check_in", id |-> id,
                         ci |-> NoDate, co |-> NoDate, code |-> 400]
       ELSE /\ reservations' = [reservations EXCEPT ![id].status = "checked_in"]
            /\ rlast' = [op |-> "check_in", id |-> id,
                         ci |-> NoDate, co |-> NoDate, code |-> 200]
    /\ UNCHANGED <<today, notRes>>

\* The check-out guard let through for a confirmed reservation as well.
check_out_refused_OnlyBeforeConfirm(status) == status \notin {"confirmed", "checked_in"}

\* ReservationViewSet.check_out: the guard that answers 400.
check_out_refused(status) == status # "checked_in"

\* POST /reservations/{id}/check_out/
check_out(id) ==
    /\ id \in 1..Len(reservations)
    /\ IF check_out_refused(reservations[id].status)
       THEN /\ reservations' = reservations
            /\ rlast' = [op |-> "check_out", id |-> id,
                         ci |-> NoDate, co |-> NoDate, code |-> 400]
       ELSE /\ reservations' = [reservations EXCEPT ![id].status = "checked_out"]
            /\ rlast' = [op |-> "check_out", id |-> id,
                         ci |-> NoDate, co |-> NoDate, code |-> 200]
    /\ UNCHANGED <<today, notRes>>

NextRes ==
    \/ Tick
    \/ \E ci \in Dates, co \in Dates, st \in Statuses \cup {Omitted} :
          ReservationCreate(ci, co, st)
    \/ \E id \in 1..MaxRes, ci \in Dates \cup {NoDate}, co \in Dates \cup {NoDate},
          st \in Statuses \cup {Omitted} : ReservationUpdate(id, ci, co, st)
    \/ \E id \in 1..MaxRes : check_in(id)
    \/ \E id \in 1..MaxRes : check_out(id)


\* -------------------------------------------------------------- payments
\* Payment.PAYMENT_METHOD_CHOICES
PAYMENT_METHOD_CHOICES == {"cash", "mobile", "card"}

\* The columns of Payment (models.py) and the keyword PaymentViewSet's
\* perform_create adds to the validated data.
Payment_fields ==
    {"id", "reservation", "amount", "payment_method", "payment_date",
     "mobile_transaction_reference", "payment_status"}

PaymentSerializer_fields ==
    {"reservation", "amount", "payment_method", "payment_status", "payment_date"}

PaymentViewSet_perform_create_kwargs == {"user"}

\* Payment.objects.create(**kwargs) builds Payment(**kwargs): a keyword that
\* names no field raises TypeError.
Payment_objects_create_accepts(kwargs) == kwargs \subseteq Payment_fields

\* The reservations a payment may name, the amounts and the payment_status
\* values a client may send (payment_status is a free CharField).
PayResIds == {1, 2}
Amounts == {0, 100}
ClientStatuses == {"pending", "completed", "refunded"}

\* PaymentSerializer.create: the status is set from the method.
PaymentSerializer_create_status(payment_method) ==
    IF payment_method = "cash" \/ payment_method = "mobile"
    THEN "completed" ELSE "pending"

\* PaymentSerializer.validate_amount
PaymentSerializer_validate_amount(amount) == ~(amount <= 0)

NoPayExchange == [op |-> "none", id |-> 0, method |-> "", code |-> 0, n |-> 0]

\* Rows as PaymentSerializer.create leaves them when it is given the
\* serializer's own fields.
StoredPaymentRows ==
    {[reservation |-> r, amount |-> 100, payment_method |-> m,
      payment_status |-> PaymentSerializer_create_status(m)] :
        r \in PayResIds, m \in PAYMENT_METHOD_CHOICES}

OnePerReservation(rows) ==
    \A a, b \in 1..Len(rows) : a # b => rows[a].reservation # rows[b].reservation

\* POST /payments/: field validation, then perform_create ->
\* serializer.save(user=request.user) -> PaymentSerializer.create ->
\* Payment.objects.create(**validated_data).
PaymentCreate(reservation, amount, payment_method, payment_status) ==
    /\ Len(payments) < MaxPayments
    /\ LET kwargs == PaymentSerializer_fields \cup PaymentViewSet_perform_create_kwargs
           taken == \E k \in 1..Len(payments) : payments[k].reservation = reservation
       IN IF ~PaymentSerializer_validate_amount(amount) \/ taken
          THEN /\ payments' = payments
               /\ plast' = [op |-> "create", id |-> 0, method |-> payment_method,
                            code |-> 400, n |-> 0]
          ELSE IF ~Payment_objects_create_accepts(kwargs)
          THEN /\ payments' = payments
               /\ plast' = [op |-> "create", id |-> 0, method |-> payment_method,
                            code |-> 500, n |-> 0]
          ELSE /\ payments' = Append(payments,
                      [reservation |-> reservation, amount |-> amount,
                       payment_method |-> payment_method,
                       payment_status |-> PaymentSerializer_create_status(payment_method)])
               /\ plast' = [op |-> "create", id |-> Len(payments) + 1,
                            method |-> payment_method, code |-> 201, n |-> 0]
    /\ UNCHANGED notPay

\* PUT /payments/{id}/: get_object() goes through get_queryset(), which for a
\* caller who is not staff filters on Payment.user (no such field:
\* FieldError).  For staff the given fields are set and saved.
PaymentUpdate(id, amount, payment_method, payment_status, is_staff) ==
    /\ id \in 1..Len(payments)
    /\ IF ~is_staff
       THEN /\ payments' = payments
            /\ plast' = [op |-> "update", id |-> id, method |-> payment_method,
                         code |-> 500, n |-> 0]
       ELSE IF ~PaymentSerializer_validate_amount(amount)
       THEN /\ payments' = payments
            /\ plast' = [op |-> "update", id |-> id, method |-> payment_method,
                         code |-> 400, n |-> 0]
       ELSE /\ payments' = [payments EXCEPT ![id].amount = amount,
                                            ![id].payment_method = payment_method,
                                            ![id].payment_status = payment_status]
            /\ plast' = [op |-> "update", id |-> id, method |-> payment_method,
                         code |-> 200, n |-> 0]
    /\ UNCHANGED notPay

\* mark_as_paid flipping a completed payment back.
Payment_mark_as_paid_Toggles(payment_status) ==
    IF payment_status = "pending" THEN "completed"
    ELSE IF payment_status = "completed" THEN "pending"
    ELSE payment_status

\* Payment.mark_as_paid: the status it leaves.
Payment_mark_as_paid(payment_status) ==
    IF payment_status = "pending" THEN "completed" ELSE payment_status

\* payment.mark_as_paid() on a stored payment; n counts the calls in a row on
\* the same payment.
mark_as_paid(id) ==
    /\ id \in 1..Len(payments)
    /\ payments' = [payments EXCEPT
            ![id].payment_status = Payment_mark_as_paid(payments[id].payment_status)]
    /\ plast' = [op |-> "mark_as_paid", id |-> id,
                 method |-> payments[id].payment_method, code |-> 0,
                 n |-> IF plast.op = "mark_as_paid" /\ plast.id = id
                       THEN (IF plast.n < MaxMarks THEN plast.n + 1 ELSE MaxMarks)
                       ELSE 1]
    /\ UNCHANGED notPay

\* ---------------------------------------------------------------- reports
NoReport == [code |-> 0, total_revenue |-> 0]

\* What aggregate() gives: None over no rows, a number otherwise.
None == [null |-> TRUE, value |-> 0]
Some(value) == [null |-> FALSE, value |-> value]

\* The filter left out: every payment is summed.
Payment_objects_filter_completed_All == payments

\* Payment.objects.filter(payment_status='completed')
Payment_objects_filter_completed ==
    SelectSeq(payments, LAMBDA row : row.payment_status = "completed")

RECURSIVE SumAmount(_)
SumAmount(rows) ==
    IF rows = << >> THEN 0 ELSE Head(rows).amount + SumAmount(Tail(rows))

\* .aggregate(Sum('amount'))['amount__sum']
aggregate_Sum_amount(rows) ==
    IF rows = << >> THEN None ELSE Some(SumAmount(rows))

\* total_revenue or 0.00: None and zero both give 0.00.
or_zero(total) == IF total.null \/ total.value = 0 THEN 0 ELSE total.value

\* GET /reports/revenue_report/
revenue_report ==
    /\ revenue' = [code |-> 200,
                   total_revenue |->
                       or_zero(aggregate_Sum_amount(Payment_objects_filter_completed))]
    /\ UNCHANGED notReports

\* Payment rows as creations, staff updates and mark_as_paid can leave them.
ReportPaymentRows ==
    [reservation : PayResIds, amount : {100, 250},
     payment_method : PAYMENT_METHOD_CHOICES, payment_status : ClientStatuses]

NextReports ==
    \/ revenue_report
    \/ \E id \in 1..MaxPayments : mark_as_paid(id)

NextPay ==
    \/ \E r \in PayResIds, amount \in Amounts, m \in PAYMENT_METHOD_CHOICES,
          st \in ClientStatuses : PaymentCreate(r, amount, m, st)
    \/ \E id \in 1..MaxPayments, amount \in Amounts, m \in PAYMENT_METHOD_CHOICES,
          st \in ClientStatuses, is_staff \in BOOLEAN :
          PaymentUpdate(id, amount, m, st, is_staff)
    \/ \E id \in 1..MaxPayments : mark_as_paid(id)

\* ----------------------------------------------------------------- users
Usernames == {"ann", "bob"}
Emails == {"a@x.tz", "b@x.tz"}
\* A password is a string of characters; NoPassword is the field left out.
Passwords == {<<"secret">>}
NoPassword == << >>

\* create_user stores the password hashed: the hasher's name, then the digest
\* (one-way, so never the characters submitted).
make_password(raw) == <<"pbkdf2_sha256">> \o raw

IdleSignUp ==
    [pc |-> "idle", username |-> "", email |-> "", password |-> NoPassword, code |-> 0]

UsernameTaken(username) == \E k \in 1..Len(users) : users[k].username = username

SignUpsInFlight == Cardinality({p \in Workers : ureq[p].pc # "idle"})

\* UserSerializer.validate_email: the email must not be stored yet.
UserSerializer_validate_email(email) ==
    ~(\E k \in 1..Len(users) : users[k].email = email)

\* POST /users/sign_up/: serializer.is_valid().  The model serializer checks
\* the unique username, validate_email checks the email; both read the store.
sign_up_is_valid(p, username, email, password) ==
    /\ ureq[p].pc = "idle"
    /\ Len(users) + SignUpsInFlight < MaxUsers
    /\ IF ~UsernameTaken(username) /\ UserSerializer_validate_email(email)
       THEN ureq' = [ureq EXCEPT ![p] =
                [pc |-> "save", username |-> username, email |-> email,
                 password |-> password, code |-> 0]]
       ELSE ureq' = [ureq EXCEPT ![p] =
                [pc |-> "idle", username |-> username, email |-> email,
                 password |-> password, code |-> 400]]
    /\ UNCHANGED <<users, notUsers>>

\* serializer.save() -> UserSerializer.create -> create_user: the INSERT.
\* username is a unique column (IntegrityError, 500); email is not.
sign_up_save(p) ==
    /\ ureq[p].pc = "save"
    /\ LET r == ureq[p] IN
       IF UsernameTaken(r.username)
       THEN /\ users' = users
            /\ ureq' = [ureq EXCEPT ![p].pc = "idle", ![p].code = 500]
       ELSE /\ users' = Append(users, [username |-> r.username, email |-> r.email,
                                       password |-> make_password(r.password)])
            /\ ureq' = [ureq EXCEPT ![p].pc = "idle", ![p].code = 201]
    /\ UNCHANGED notUsers

SignUpStep(p) ==
    \/ \E u \in Usernames, e \in Emails, pw \in Passwords : sign_up_is_valid(p, u, e, pw)
    \/ sign_up_save(p)

\* What the list and detail endpoints return of a user: Meta.fields is
\* id, username, email, password, and password is not write-only.
UserSerializer_to_representation(id) ==
    [id |-> id, username |-> users[id].username, email |-> users[id].email,
     password |-> users[id].password]

\* The unique-username validator on update leaves the updated row aside.
UsernameTakenByOther(id, username) ==
    \E k \in 1..Len(users) : k # id /\ users[k].username = username

\* ModelSerializer.update (UserSerializer does not override it): every
\* validated field is assigned to the instance as submitted.
ModelSerializer_update(instance, username, email, password) ==
    [username |-> IF username = Omitted THEN instance.username ELSE username,
     email    |-> IF email = Omitted THEN instance.email ELSE email,
     password |-> IF password = NoPassword THEN instance.password ELSE password]

\* PUT (partial = FALSE) and PATCH (partial = TRUE) /users/{id}/.  PUT requires
\* username and password; email is optional on the model.  validate_email runs
\* whenever an email is sent and looks at every stored row, the updated one
\* included.
UserUpdate(p, id, username, email, password, partial) ==
    /\ ureq[p].pc = "idle"
    /\ LET answer(code) == [ureq EXCEPT ![p] =
                [pc |-> "idle", username |-> username, email |-> email,
                 password |-> password, code |-> code]]
       IN  IF id > Len(users)
           THEN users' = users /\ ureq' = answer(404)
           ELSE IF \/ ~partial /\ (username = Omitted \/ password = NoPassword)
                   \/ username # Omitted /\ UsernameTakenByOther(id, username)
                   \/ email # Omitted /\ ~UserSerializer_validate_email(email)
                THEN users' = users /\ ureq' = answer(400)
                ELSE /\ users' = [users EXCEPT ![id] =
                            ModelSerializer_update(users[id], username, email, password)]
                     /\ ureq' = answer(200)
    /\ UNCHANGED notUsers

UserStep(p) ==
    \/ SignUpStep(p)
    \/ \E id \in 1..MaxUsers, u \in Usernames \cup {Omitted}, e \in Emails \cup {Omitted},
          pw \in Passwords \cup {NoPassword}, partial \in BOOLEAN :
          UserUpdate(p, id, u, e, pw, partial)

\* One request at a time.
NextUsers == UserStep(1)

\* Requests of all workers interleave at their database statements.
NextUsersConc == \E p \in Workers : UserStep(p)

\* ----------------------------------------------------- permission checks
\* CustomUser.role choices; AnonymousUser is what request.user is without a
\* session (it has no role attribute).
ROLE_CHOICES == {"admin", "manager", "staff"}
AnonymousUser == [is_authenticated |-> FALSE, is_staff |-> FALSE, role |-> "none"]
Callers ==
    {AnonymousUser} \cup
    [is_authenticated : {TRUE}, is_staff : BOOLEAN, role : ROLE_CHOICES]

\* The view sets urls.py registers on the router, by their prefix, and the
\* operations each one answers.
RoutedViews ==
    {"reservations", "inventory", "transactions", "users", "reports", "payments"}

ModelViewSet_actions ==
    {"list", "create", "retrieve", "update", "partial_update", "destroy"}

actions(view) ==
    CASE view = "users" -> ModelViewSet_actions \cup {"sign_up", "sign_in"}
      [] view = "reservations" ->
            ModelViewSet_actions \cup {"check_in", "check_out", "my_reservations"}
      [] view = "reports" ->
            {"reservation_report", "revenue_report", "transaction_report",
             "reservation_details"}
      [] OTHER -> ModelViewSet_actions

\* DEFAULT_PERMISSION_CLASSES of the project settings applies to a view that
\* declares no permission_classes.  The settings module is not part of the
\* sources read here, so both the framework's own default (AllowAny) and the
\* authenticated-only default are considered.
DefaultPermissionChoices == {{"AllowAny"}, {"IsAuthenticated"}}

\* permission_classes of each routed view set: api.UserViewSet, and the
\* Reservation, Transaction, Payment, InventoryItem and Report view sets of
\* views.py (the last two declare none).
permission_classes(view) ==
    CASE view = "users" -> {"AllowAny"}
      [] view \in {"reservations", "transactions", "payments"} -> {"IsAuthenticated"}
      [] OTHER -> settings

\* has_permission of AllowAny, IsAuthenticated and the IsAdmin of views.py.
has_permission(permission, caller) ==
    CASE permission = "AllowAny" -> TRUE
      [] permission = "IsAuthenticated" -> caller.is_authenticated
      [] permission = "IsAdmin" -> caller.is_authenticated /\ caller.is_staff

\* APIView.check_permissions: every class of the view must grant.
check_permissions(view, caller) ==
    \A permission \in permission_classes(view) : has_permission(permission, caller)

NoAccess ==
    [view |-> "none", action |-> "none", caller |-> AnonymousUser, allowed |-> FALSE]

\* A request reaches a routed operation: the permission check runs before the
\* handler and either lets the request through or rejects it (401/403).
Request(view, action, caller) ==
    /\ access' = [view |-> view, action |-> action, caller |-> caller,
                  allowed |-> check_permissions(view, caller)]
    /\ UNCHANGED <<settings, notAccess>>

NextAccess ==
    \E view \in RoutedViews, caller \in Callers :
        \E action \in actions(view) : Request(view, action, caller)

\* --------------------------------------------------- user-scoped listings
\* The authenticated callers, by primary key.
UserIds == 1..MaxUsers

\* The names a filter() on each model can resolve: its columns.
Transaction_fields == {"id", "item", "quantity_sold", "total_price", "date"}
Notification_fields == {"id", "user", "title", "message", "created_at", "is_read"}
Reservation_fields == {"id", "guest", "room", "check_in_date", "check_out_date", "status"}

\* QuerySet.filter(keyword=...): a keyword that names no field of the model
\* raises FieldError when the query is built, whatever the table holds.
QuerySet_filter_resolves(fields, keyword) == keyword \in fields

NoListing == [view |-> "none", caller |-> 0, is_staff |-> FALSE, code |-> 0, ids |-> {}]

Listing(view, caller, is_staff, code, ids) ==
    [view |-> view, caller |-> caller, is_staff |-> is_staff, code |-> code, ids |-> ids]

\* PaymentViewSet.get_queryset, then list: all() for staff, filter(user=...)
\* for everybody else.
PaymentViewSet_list(caller, is_staff) ==
    /\ listed' =
          IF is_staff
          THEN Listing("payments", caller, is_staff, 200, 1..Len(payments))
          ELSE IF QuerySet_filter_resolves(Payment_fields, "user")
               THEN Listing("payments", caller, is_staff, 200,
                            {k \in 1..Len(payments) : payments[k].user = caller})
               ELSE Listing("payments", caller, is_staff, 500, {})
    /\ UNCHANGED <<notifications, notListing>>

\* TransactionViewSet.get_queryset, then list: the same two branches.
TransactionViewSet_list(caller, is_staff) ==
    /\ listed' =
          IF is_staff
          THEN Listing("transactions", caller, is_staff, 200, 1..Len(txns))
          ELSE IF QuerySet_filter_resolves(Transaction_fields, "user")
               THEN Listing("transactions", caller, is_staff, 200,
                            {k \in 1..Len(txns) : txns[k].user = caller})
               ELSE Listing("transactions", caller, is_staff, 500, {})
    /\ UNCHANGED <<notifications, notListing>>

\* NotificationView.get: filter(user=request.user), for every caller.
NotificationView_get(caller, is_staff) ==
    /\ listed' =
          IF QuerySet_filter_resolves(Notification_fields, "user")
          THEN Listing("notifications", caller, is_staff, 200,
                       {k \in 1..Len(notifications) : notifications[k].user = caller})
          ELSE Listing("notifications", caller, is_staff, 500, {})
    /\ UNCHANGED <<notifications, notListing>>

\* NotificationView.post: the body must name a user, and save(user=request.user)
\* replaces it by the caller.
NotificationView_post(caller, user) ==
    /\ Len(notifications) < MaxNotes
    /\ notifications' = Append(notifications, [user |-> caller])
    /\ UNCHANGED <<listed, notListing>>

\* ReservationViewSet.my_reservations: filter(guest=request.user), for every
\* caller.
my_reservations(caller, is_staff) ==
    /\ listed' =
          IF QuerySet_filter_resolves(Reservation_fields, "guest")
          THEN Listing("my_reservations", caller, is_staff, 200,
                       {k \in 1..Len(reservations) : reservations[k].guest = caller})
          ELSE Listing("my_reservations", caller, is_staff, 500, {})
    /\ UNCHANGED <<notifications, notListing>>

NextListing ==
    \/ \E caller \in UserIds, is_staff \in BOOLEAN : PaymentViewSet_list(caller, is_staff)
    \/ \E caller \in UserIds, is_staff \in BOOLEAN : TransactionViewSet_list(caller, is_staff)
    \/ \E caller \in UserIds, is_staff \in BOOLEAN : NotificationView_get(caller, is_staff)
    \/ \E caller \in UserIds, user \in UserIds : NotificationView_post(caller, user)
    \/ \E caller \in UserIds, is_staff \in BOOLEAN : my_reservations(caller, is_staff)

\* Reservation rows that belong to a guest (stored outside the endpoint).
StoredReservationRows ==
    [guest : UserIds, check_in_date : {0}, check_out_date : {1}, status : {"pending"}]

\* ------------------------------------------------------- specifications
\* Each component's requests over the store, the other tables left alone.
\* The store after migration: every table empty, nobody mid-request.
InitEmpty ==
    /\ items = [i \in ItemIds |-> NoItem]
    /\ txns = << >>
    /\ treq = [p \in Workers |-> IdleReq]
    /\ reservations = << >>
    /\ today = 0
    /\ rlast = NoExchange
    /\ payments = << >>
    /\ plast = NoPayExchange
    /\ users = << >>
    /\ ureq = [p \in Workers |-> IdleSignUp]
    /\ settings = {"AllowAny"}
    /\ access = NoAccess
    /\ notifications = << >>
    /\ listed = NoListing
    /\ revenue = NoReport

\* The same with payment rows already stored, one per reservation at most.
Init ==
    /\ items = [i \in ItemIds |-> NoItem]
    /\ txns = << >>
    /\ treq = [p \in Workers |-> IdleReq]
    /\ reservations = << >>
    /\ today = 0
    /\ rlast = NoExchange
    /\ payments \in {rows \in UNION {[1..n -> StoredPaymentRows] : n \in 0..MaxPayments} :
                        OnePerReservation(rows)}
    /\ plast = NoPayExchange
    /\ users = << >>
    /\ ureq = [p \in Workers |-> IdleSignUp]
    /\ settings = {"AllowAny"}
    /\ access = NoAccess
    /\ notifications = << >>
    /\ listed = NoListing
    /\ revenue = NoReport

\* The empty store under either setting of the default permission classes.
InitAccess ==
    /\ items = [i \in ItemIds |-> NoItem]
    /\ txns = << >>
    /\ treq = [p \in Workers |-> IdleReq]
    /\ reservations = << >>
    /\ today = 0
    /\ rlast = NoExchange
    /\ payments = << >>
    /\ plast = NoPayExchange
    /\ users = << >>
    /\ ureq = [p \in Workers |-> IdleSignUp]
    /\ settings \in DefaultPermissionChoices
    /\ access = NoAccess
    /\ notifications = << >>
    /\ listed = NoListing
    /\ revenue = NoReport

\* Payment and Reservation rows already stored, no notification yet.
InitListing ==
    /\ items = [i \in ItemIds |-> NoItem]
    /\ txns = << >>
    /\ treq = [p \in Workers |-> IdleReq]
    /\ reservations \in UNION {[1..n -> StoredReservationRows] : n \in 0..MaxRes}
    /\ today = 0
    /\ rlast = NoExchange
    /\ payments \in {rows \in UNION {[1..n -> StoredPaymentRows] : n \in 0..MaxPayments} :
                        OnePerReservation(rows)}
    /\ plast = NoPayExchange
    /\ users = << >>
    /\ ureq = [p \in Workers |-> IdleSignUp]
    /\ settings = {"AllowAny"}
    /\ access = NoAccess
    /\ notifications = << >>
    /\ listed = NoListing
    /\ revenue = NoReport

\* Payment rows of every amount and status stored, no report asked for yet.
InitReports ==
    /\ items = [i \in ItemIds |-> NoItem]
    /\ txns = << >>
    /\ treq = [p \in Workers |-> IdleReq]
    /\ reservations = << >>
    /\ today = 0
    /\ rlast = NoExchange
    /\ payments \in {rows \in UNION {[1..n -> ReportPaymentRows] : n \in 0..MaxPayments} :
                        OnePerReservation(rows)}
    /\ plast = NoPayExchange
    /\ users = << >>
    /\ ureq = [p \in Workers |-> IdleSignUp]
    /\ settings = {"AllowAny"}
    /\ access = NoAccess
    /\ notifications = << >>
    /\ listed = NoListing
    /\ revenue = NoReport

Next ==
    \/ NextPOSConc \/ NextRes \/ NextPay \/ NextUsersConc
    \/ NextAccess \/ NextListing \/ NextReports

Spec == Init /\ [][Next]_vars

SpecPOS == InitEmpty /\ [][NextPOS]_vars

SpecPOSConc == InitEmpty /\ [][NextPOSConc]_vars

SpecRes == InitEmpty /\ [][NextRes]_vars

SpecPay == Init /\ [][NextPay]_vars

SpecUsers == InitEmpty /\ [][NextUsers]_vars

SpecUsersConc == InitEmpty /\ [][NextUsersConc]_vars

SpecAccess == InitAccess /\ [][NextAccess]_vars

SpecListing == InitListing /\ [][NextListing]_vars

SpecReports == InitReports /\ [][NextReports]_vars

\* ------------------------------------------------------ claims: C1, C2
\* A worker's request has just been answered.
TxnAnswered(p) == treq[p].pc # "idle" /\ treq'[p].pc = "idle"

\* C1: every valid Transaction creation (quantity_sold <= item.quantity when
\* the request is validated) is answered 201, its persisted row has
\* total_price = quantity_sold * item.price, and the item's stored quantity is
\* its previous quantity minus quantity_sold.
C1_ValidCreationDeductsOnce ==
    [][\A p \in Workers :
          TxnAnswered(p) =>
            /\ treq'[p].code = 201
            /\ Len(txns') = Len(txns) + 1
            /\ txns'[Len(txns')].item = treq[p].item
            /\ txns'[Len(txns')].quantity_sold = treq[p].qs
            /\ txns'[Len(txns')].total_price
                  = treq[p].qs * items'[treq[p].item].price
            /\ items'[treq[p].item].quantity = treq[p].q0 - treq[p].qs]_vars

\* A new request of worker p was handled in this step.
TxnRequested(p) == treq[p].pc = "idle" /\ treq'[p] # treq[p]

\* C2: a Transaction creation with quantity_sold > item.quantity is answered
\* 400 at once, no transaction row is persisted and the item's stored
\* quantity is unchanged.
C2_InsufficientStockRejected ==
    [][\A p \in Workers :
          (/\ TxnRequested(p)
           /\ treq'[p].qs > items[treq'[p].item].quantity)
          => /\ treq'[p].pc = "idle"
             /\ treq'[p].code = 400
             /\ txns' = txns
             /\ items' = items]_vars

\* C2 witness: a request for more than the stock has been refused, and the
\* stock is still what the request read.
C2_Witness ==
    \E p \in Workers :
        /\ treq[p].pc = "idle"
        /\ treq[p].code = 400
        /\ items[treq[p].item].exists
        /\ treq[p].qs > items[treq[p].item].quantity
        /\ items[treq[p].item].quantity = treq[p].q0
        /\ items[treq[p].item].quantity > 0

\* ------------------------------------------------------ claims: C3 .. C7
Rank(status) == CHOOSE k \in 1..Len(STATUS_CHOICES) : STATUS_CHOICES[k] = status

C4_CheckInOnlyFromConfirmed ==
    [][\A id \in 1..MaxRes :
          check_in(id) =>
            IF reservations[id].status = "confirmed"
            THEN /\ rlast'.code = 200
                 /\ reservations' = [reservations EXCEPT ![id].status = "checked_in"]
            ELSE /\ rlast'.code = 400
                 /\ reservations' = reservations]_vars

\* C4 witness: a check_in was answered 200 and the reservation is checked in.
C4_Witness ==
    /\ rlast.op = "check_in"
    /\ rlast.code = 200
    /\ reservations[rlast.id].status = "checked_in"

\* C5: check_out answers 200 and sets 'checked_out' exactly when the status
\* is 'checked_in'; from any other status it answers 400 and changes nothing.
C5_CheckOutOnlyFromCheckedIn ==
    [][\A id \in 1..MaxRes :
          check_out(id) =>
            IF reservations[id].status = "checked_in"
            THEN /\ rlast'.code = 200
                 /\ reservations' = [reservations EXCEPT ![id].status = "checked_out"]
            ELSE /\ rlast'.code = 400
                 /\ reservations' = reservations]_vars

\* C5 witness: a check_out was answered 200 and the reservation is checked out.
C5_Witness ==
    /\ rlast.op = "check_out"
    /\ rlast.code = 200
    /\ reservations[rlast.id].status = "checked_out"

\* This step served a POST /reservations/ (only ReservationCreate writes
\* op = "create", and two creations in a row with the same exchange change
\* nothing).
CreationServed == rlast'.op = "create" /\ rlast' # rlast

C8_CreatedPaymentStatusFromMethod ==
    [][\A r \in PayResIds, amount \in Amounts, m \in PAYMENT_METHOD_CHOICES,
          st \in ClientStatuses :
          (/\ PaymentCreate(r, amount, m, st)
           /\ amount > 0
           /\ \A k \in 1..Len(payments) : payments[k].reservation # r)
          => /\ plast'.code = 201
             /\ Len(payments') = Len(payments) + 1
             /\ payments'[Len(payments')].payment_method = m
             /\ payments'[Len(payments')].payment_status
                   = (IF m \in {"cash", "mobile"} THEN "completed" ELSE "pending")]_vars

\* C9: mark_as_paid turns 'pending' into 'completed', leaves a 'completed'
\* payment as it is, and a second call right after the first changes nothing.
C9_MarkAsPaidIdempotent ==
    [][\A id \in 1..MaxPayments :
          mark_as_paid(id) =>
            /\ payments[id].payment_status = "pending"
                  => payments' = [payments EXCEPT ![id].payment_status = "completed"]
            /\ payments[id].payment_status = "completed" => payments' = payments
            /\ (plast.op = "mark_as_paid" /\ plast.id = id) => payments' = payments]_vars

\* C9 witness: mark_as_paid was called twice in a row on a card payment,
\* which is completed.
C9_Witness ==
    /\ plast.op = "mark_as_paid"
    /\ plast.n >= 2
    /\ payments[plast.id].payment_method = "card"
    /\ payments[plast.id].payment_status = "completed"

\* ----------------------------------------------------------- claim: C10
\* C10: no two stored users share an email, whatever the order in which
\* sign_up requests are served.
C10_EmailsUnique ==
    \A a, b \in 1..Len(users) : a # b => users[a].email # users[b].email

\* ----------------------------------------------------------- claim: C11
\* C11: after any sequence of sign_up, create, update and partial update on
\* the users resource, no read endpoint (list or detail) returns a password
\* equal to a plaintext a client submitted: the stored and serialized value
\* is never one of the submitted passwords.
C11_PlaintextNeverReturned ==
    \A id \in 1..Len(users) :
        UserSerializer_to_representation(id).password \notin Passwords

\* ------------------------------------------------------ claims: C12, C14
\* C12: every routed operation other than sign_up and sign_in is rejected
\* when the caller is unauthenticated, the other operations of the users
\* resource, the inventory resource and the reports included.  (POST /users/
\* registers a user as sign_up does and is counted with it here.)
C12_UnauthenticatedRejected ==
    /\ access.view # "none"
    /\ ~access.caller.is_authenticated
    /\ ~(access.view = "users" /\ access.action \in {"sign_up", "sign_in", "create"})
    => ~access.allowed

\* C14: every create, update or delete of an InventoryItem through the routed
\* inventory endpoint is rejected unless the caller is authenticated and
\* holds the admin role.
C14_InventoryWritesAdminOnly ==
    /\ access.view = "inventory"
    /\ access.action \in {"create", "update", "partial_update", "destroy"}
    /\ access.allowed
    => access.caller.is_authenticated /\ access.caller.role = "admin"

\* ----------------------------------------------------------- claim: C13
\* The rows of a listed collection, and those of them the caller owns.
\* Payment and Transaction rows record no owner.
AllIds(view) ==
    CASE view = "payments" -> 1..Len(payments)
      [] view = "transactions" -> 1..Len(txns)
      [] view = "notifications" -> 1..Len(notifications)
      [] view = "my_reservations" -> 1..Len(reservations)

OwnedIds(view, caller) ==
    CASE view = "notifications" ->
            {k \in 1..Len(notifications) : notifications[k].user = caller}
      [] view = "my_reservations" ->
            {k \in 1..Len(reservations) : reservations[k].guest = caller}
      [] OTHER -> {}

ListingScoped ==
    /\ listed.code = 200
    /\ IF listed.is_staff
       THEN listed.ids = AllIds(listed.view)
       ELSE listed.ids \subseteq OwnedIds(listed.view, listed.caller)

\* C13: each user-scoped listing (payments, transactions, notifications,
\* my_reservations) answers a caller without staff privilege with records
\* that caller owns only, and a staff caller with the full collection.
C13_ListingsScoped == [][listed' # listed => ListingScoped']_vars

\* ------------------------------------------------ claims: C15, C17, C19
\* C15: in every reachable state, after any sequence and any interleaving of
\* inventory creations and updates and Transaction creations, every stored
\* InventoryItem has quantity >= 0 and price >= 0.
C15_QuantityAndPriceNonNegative ==
    \A i \in ItemIds :
        items[i].exists => items[i].quantity >= 0 /\ items[i].price >= 0

\* The quantity sold of item i over the persisted transaction rows.
RECURSIVE SumSold(_, _)
SumSold(rows, i) ==
    IF rows = << >> THEN 0
    ELSE (IF Head(rows).item = i THEN Head(rows).quantity_sold ELSE 0)
         + SumSold(Tail(rows), i)

\* C17: Transaction creation is atomic with respect to stock: in every
\* reachable state, interleaved creations included, an item's initial quantity
\* minus its stored quantity equals the sum of quantity_sold over its persisted
\* transactions.  Stated step by step: whatever a step of a creation takes off
\* an item's stock, it adds to the item's persisted sales (a write through the
\* inventory endpoint sets a new initial quantity and is left aside).
C17_StockMatchesPersistedSales ==
    [][treq' # treq =>
          \A i \in ItemIds :
              items[i].quantity - items'[i].quantity
                 = SumSold(txns', i) - SumSold(txns, i)]_vars

\* C19: whenever a Transaction creation fails, at validation (400) or at the
\* stock check inside Transaction.save (500), the item's stored quantity is
\* what it was before the request and no transaction row was added.
C19_FailedCreationLeavesStock ==
    [][\A p \in Workers :
          (/\ treq'[p] # treq[p]
           /\ treq'[p].pc = "idle"
           /\ treq'[p].code \in {400, 500})
          => /\ items'[treq'[p].item].quantity = treq'[p].q0
             /\ txns' = txns]_vars

\* ------------------------------------------------------ claims: C16, C18
\* C16: in every reachable state, after any sequence of payment creations,
\* updates and mark_as_paid calls, every stored Payment has payment_status
\* pending or completed, and a card payment that is pending stays so until a
\* request on that payment confirms it (sets it completed).
C16_PaymentStatusWithinChoices ==
    /\ [](\A k \in 1..Len(payments) :
             payments[k].payment_status \in {"pending", "completed"})
    /\ [][\A k \in 1..Len(payments) :
             (/\ payments[k].payment_method = "card"
              /\ payments[k].payment_status = "pending"
              /\ payments'[k].payment_status # "pending")
             => /\ payments'[k].payment_status = "completed"
                /\ plast'.id = k
                /\ plast'.op \in {"mark_as_paid", "update"}]_vars

\* The sum of amount over the payments stored as completed.
RECURSIVE SumAmountOf(_)
SumAmountOf(ids) ==
    IF ids = {} THEN 0
    ELSE LET k == CHOOSE k \in ids : TRUE
         IN  payments[k].amount + SumAmountOf(ids \ {k})

CompletedTotal ==
    SumAmountOf({k \in 1..Len(payments) : payments[k].payment_status = "completed"})

====
